---- MODULE Spec2Model ----
(***************************************************************************)
(* A model of gint (src/main.ts): the log parser of main() and the         *)
(* interactive read-dispatch-repaint loop of interactiveList().            *)
(*                                                                         *)
(* A JavaScript string is a sequence of characters, each character a       *)
(* one-character TLA+ string.  A character outside ASCII is written as a   *)
(* name in braces ("{esc}" is \x1b, "{larr}" is the left arrow) and is one *)
(* element of the sequence, as it is one UTF-16 unit of the JS string.     *)
(* JavaScript indices are 0-based; the sequences here are 1-based, so      *)
(* x[i] of the source is x[i + 1] here.                                    *)
(***************************************************************************)
EXTENDS Integers, Sequences, FiniteSets, TLC

VARIABLES
    logOutput,      \* main: the decoded stdout of git log (line 222)
    pc,             \* position of the program
    commits,        \* commitHistory / the commits argument of interactiveList
    selectedIndex,  \* interactiveList: let selectedIndex (0-based)
    raw,            \* the terminal's raw mode, as set by Deno.stdin.setRaw
    setRawCalls,    \* the arguments of the Deno.stdin.setRaw calls so far
    buffer,         \* interactiveList: the reused Uint8Array(8)
    bytes,          \* the subarray(0, n) of the most recent read
    frame,          \* the rows on the terminal since the last console.clear
    repaints,       \* renderList calls made by the most recent iteration
    farewells,      \* number of "Exiting..." lines printed
    iter,           \* the most recent iteration: its read and the state it began in
    error           \* the exception that ended the program, or "none"

vars == <<logOutput, pc, commits, selectedIndex, raw, setRawCalls, buffer,
          bytes, frame, repaints, farewells, iter, error>>

\* ------------------------------------------------------------------------
\* Bounds of the model
\* ------------------------------------------------------------------------

\* Longest read chunk enumerated byte by byte (longer key chunks are listed).
MaxChunkLen == 1

\* Most commit blocks in a log text given to the parser specification.
MaxBlocks == 2

\* ------------------------------------------------------------------------
\* JavaScript values
\* ------------------------------------------------------------------------

\* The value undefined: a sequence no string equals.
Undefined == <<"{undefined}">>

\* x[i] of an array (0-based): undefined past the end.
At(arr, i) == IF i + 1 <= Len(arr) THEN arr[i + 1] ELSE Undefined

\* `${x}`: undefined prints as the word.
Str(x) == IF x = Undefined THEN <<"u", "n", "d", "e", "f", "i", "n", "e", "d">> ELSE x

Max(a, b) == IF a > b THEN a ELSE b

Min(a, b) == IF a < b THEN a ELSE b

Spaces(k) == [i \in 1..k |-> " "]

\* String.prototype.padEnd(len, " ")
PadEnd(s, len) == s \o Spaces(len - Len(s))

\* The positions (1-based) at which sep occurs in s.
Occurrences(s, sep) ==
    {p \in 1..(Len(s) - Len(sep) + 1) : SubSeq(s, p, p + Len(sep) - 1) = sep}

RECURSIVE Split(_, _)
\* String.prototype.split(sep), sep not empty: the pieces between the
\* occurrences of sep, found left to right; always at least one piece.
Split(s, sep) ==
    IF Occurrences(s, sep) = {} THEN <<s>>
    ELSE LET p == CHOOSE q \in Occurrences(s, sep) : \A r \in Occurrences(s, sep) : q <= r
         IN <<SubSeq(s, 1, p - 1)>> \o Split(SubSeq(s, p + Len(sep), Len(s)), sep)

WhiteSpace == {" ", "\t", "\n"}

RECURSIVE TrimEnd(_)
\* String.prototype.trimEnd()
TrimEnd(s) ==
    IF s # <<>> /\ s[Len(s)] \in WhiteSpace THEN TrimEnd(SubSeq(s, 1, Len(s) - 1)) ELSE s

RECURSIVE Join(_, _)
\* Array.prototype.join(sep)
Join(parts, sep) ==
    IF parts = <<>> THEN <<>>
    ELSE IF Len(parts) = 1 THEN parts[1]
    ELSE parts[1] \o sep \o Join(Tail(parts), sep)

\* ------------------------------------------------------------------------
\* Dates (new Date(string) and the two Intl.DateTimeFormat of lines 13-23)
\* ------------------------------------------------------------------------

RawDate1 == <<"M", "o", "n", " ", "J", "a", "n", " ", "1", " ", "1", "0", ":", "0", "0", ":", "0", "0", " ", "2", "0", "2", "4", " ", "+", "0", "0", "0", "0">>

RawDate2 == <<"T", "u", "e", " ", "J", "a", "n", " ", "2", " ", "0", "9", ":", "3", "0", ":", "0", "0", " ", "2", "0", "2", "4", " ", "+", "0", "0", "0", "0">>

RawDate3 == <<"M", "o", "n", ",", " ", "1", " ", "J", "a", "n", " ", "2", "0", "2", "4", " ", "1", "0", ":", "0", "0", ":", "0", "0", " ", "+", "0", "0", "0", "0">>

InvalidDate == [valid |-> FALSE, date |-> <<>>, time |-> <<>>]

\* new Date(x): the dates the model knows, read in a UTC locale; any other
\* string, and undefined, give an Invalid Date.
NewDate(x) ==
    CASE x = RawDate1 -> [valid |-> TRUE, date |-> <<"0", "1", " ", "J", "a", "n", " ", "2", "0", "2", "4">>, time |-> <<"1", "0", ":", "0", "0">>]
      [] x = RawDate2 -> [valid |-> TRUE, date |-> <<"0", "2", " ", "J", "a", "n", " ", "2", "0", "2", "4">>, time |-> <<"0", "9", ":", "3", "0">>]
      [] x = RawDate3 -> [valid |-> TRUE, date |-> <<"0", "1", " ", "J", "a", "n", " ", "2", "0", "2", "4">>, time |-> <<"1", "0", ":", "0", "0">>]
      [] OTHER -> InvalidDate

\* Intl.DateTimeFormat.prototype.format throws a RangeError on an Invalid Date.
FormatThrows(datetime) == ~datetime.valid

dateFormatter(datetime) == datetime.date

timeFormatter(datetime) == datetime.time

\* ------------------------------------------------------------------------
\* The parser of main()
\* ------------------------------------------------------------------------

\* The callback of lines.slice(1).map: one file line.
ParseFile(file) ==
    LET res == Split(file, <<"\t">>)
    IN [status  |-> IF Len(res[1]) > 0 /\ res[1][1] = "R" THEN <<"R">> ELSE res[1],
        name    |-> At(res, 1),
        oldName |-> At(res, 2)]

BlockLines(commit) == Split(TrimEnd(commit), <<"\n">>)

BlockMeta(commit) == Split(BlockLines(commit)[1], <<"|">>)

\* The callback of logOutput.split("\n\n").map throws on this block.
CommitThrows(commit) == FormatThrows(NewDate(At(BlockMeta(commit), 2)))

\* The callback of logOutput.split("\n\n").map: one commit block.
ParseCommit(commit) ==
    LET lines    == BlockLines(commit)
        meta     == BlockMeta(commit)
        datetime == NewDate(At(meta, 2))
        files    == [i \in 1..(Len(lines) - 1) |-> ParseFile(lines[i + 1])]
    IN [hash       |-> meta[1],
        username   |-> At(meta, 1),
        date       |-> dateFormatter(datetime),
        time       |-> timeFormatter(datetime),
        message    |-> At(meta, 3),
        files      |-> files,
        isExpanded |-> FALSE]

LogBlocks(text) == Split(text, <<"\n", "\n">>)

\* main throws while building commitHistory.
ParseThrows(text) == \E i \in 1..Len(LogBlocks(text)) : CommitThrows(LogBlocks(text)[i])

\* commitHistory of main
ParseLog(text) ==
    LET blocks == LogBlocks(text)
    IN [i \in 1..Len(blocks) |-> ParseCommit(blocks[i])]

\* ------------------------------------------------------------------------
\* Layout and rendering
\* ------------------------------------------------------------------------

BLUE_600 == <<"#", "2", "5", "6", "3", "e", "b">>

\* `${commit.date} ${commit.time} | ${commit.username} | ${commit.message}`
SummaryLine(commit) ==
    Str(commit.date) \o <<" ">> \o Str(commit.time) \o <<" ", "|", " ">> \o Str(commit.username)
        \o <<" ", "|", " ">> \o Str(commit.message)

RECURSIVE LongestFrom(_, _, _)
LongestFrom(cs, i, maxCharacters) ==
    IF i > Len(cs) THEN maxCharacters
    ELSE LongestFrom(cs, i + 1,
            IF Len(SummaryLine(cs[i])) > maxCharacters
            THEN Len(SummaryLine(cs[i])) ELSE maxCharacters)

\* The commits of cs that are not expanded.
Collapsed(cs) == SelectSeq(cs, LAMBDA c : ~c.isExpanded)

\* getLongestLineLength with a slip: only the collapsed commits are measured.
getLongestLineLengthCollapsed(cs) == LongestFrom(Collapsed(cs), 1, 0)

getLongestLineLength(cs) == LongestFrom(cs, 1, 0)

RECURSIVE LongestNameFrom(_, _, _)
LongestNameFrom(files, i, maxCharacters) ==
    IF i > Len(files) THEN maxCharacters
    ELSE LongestNameFrom(files, i + 1,
            IF Len(files[i].name) > maxCharacters
            THEN Len(files[i].name) ELSE maxCharacters)

\* Defined when no file name is undefined (file.name.length throws otherwise).
getLongestFilenameLength(files) == LongestNameFrom(files, 1, 0)

\* file.name.length of getLongestFilenameLength throws a TypeError.
FilenameLengthThrows(files) == \E i \in 1..Len(files) : files[i].name = Undefined

getFileIcon(filename) ==
    LET parts     == Split(filename, <<".">>)
        extension == parts[Len(parts)]
    IN CASE extension = <<"j", "s">>        -> <<"{esc}", "[", "4", "8", ";", "5", ";", "1", "1", "m", " ", "J", "S", "{esc}", "[", "0", "m">>
         [] extension = <<"j", "s", "x">>       -> <<"{esc}", "[", "3", "8", ";", "5", ";", "3", "9", "m", " ", "{atom}", " ", "{esc}", "[", "0", "m">>
         [] extension = <<"t", "s">>        -> <<"{esc}", "[", "4", "8", ";", "5", ";", "2", "7", "m", " ", "T", "S", "{esc}", "[", "0", "m">>
         [] extension = <<"t", "s", "x">>       -> <<"{esc}", "[", "3", "8", ";", "5", ";", "3", "9", "m", " ", "{atom}", " ", "{esc}", "[", "0", "m">>
         [] extension = <<"c", "s", "s">>       -> <<"{esc}", "[", "3", "8", ";", "5", ";", "3", "9", "m", " ", "#", " ", "{esc}", "[", "0", "m">>
         [] extension = <<"j", "s", "o", "n">>      -> <<"{esc}", "[", "3", "8", ";", "5", ";", "9", "2", "m", "{lbrace}", "{ell}", "{rbrace}", "{esc}", "[", "0", "m">>
         [] extension = <<"g", "i", "t", "i", "g", "n", "o", "r", "e">> -> <<"{esc}", "[", "3", "8", ";", "5", ";", "9", "m", " ", "{branch}", " ", "{esc}", "[", "0", "m">>
         [] OTHER                    -> <<"{box}">>

\* foreground(code), the code already in decimal digits
foreground(code) == <<"{esc}", "[", "3", "8", ";", "5", ";">> \o code \o <<"m">>

background(hexCode) == <<"b", "a", "c", "k", "g", "r", "o", "u", "n", "d", "-", "c", "o", "l", "o", "r", ":", " ">> \o hexCode \o <<";">>

getHighlightedFilename(file, nameLength, lineLength) ==
    LET fileName == PadEnd(file.name, nameLength)
        fileInfo == IF file.status = <<"R">>
                    THEN fileName \o <<" ", " ", " ", " ", "{larr}", " ">> \o Str(file.oldName)
                    ELSE fileName
        padded   == PadEnd(fileInfo, lineLength - 4)
    IN CASE file.status = <<"A">> -> foreground(<<"7", "8">>) \o padded \o file.status \o foreground(<<"0">>)
         [] file.status = <<"M">> -> padded \o file.status
         [] file.status = <<"D">> -> foreground(<<"2", "1", "0">>) \o padded \o file.status \o foreground(<<"0">>)
         [] file.status = <<"R">> -> foreground(<<"7", "5">>) \o padded \o file.status \o foreground(<<"0">>)
         [] OTHER              -> fileName

\* One console.log call: the text and the CSS of a %c directive (<<>>: none).
Row(text, css) == [text |-> text, css |-> css]

Header == Row(<<"\n", "{info}", " ", " ", "U", "s", "e", " ", "{up}", "/", "{down}", " ", "t", "o", " ", "n", "a", "v", "i", "g", "a", "t", "e", ",", " ", "S", "p", "a", "c", "e", " ", "t", "o", " ", "e", "x", "p", "a", "n", "d", "/", "c", "o", "l", "l", "a", "p", "s", "e", ",", " ", "C", "t", "r", "l", "+", "C", " ", "t", "o", " ", "e", "x", "i", "t", "\n">>, <<>>)

SummaryRow(commit, index, selected, lineLength) ==
    LET isSelected   == index = selected
        expandMarker == IF commit.isExpanded THEN <<"[", "-", "]">> ELSE <<"[", "+", "]">>
        line         == PadEnd(SummaryLine(commit), lineLength)
    IN IF isSelected
       THEN Row(<<" ", " ">> \o expandMarker \o <<" ">> \o line \o <<" ", " ">>, background(BLUE_600))
       ELSE Row(<<" ", " ">> \o expandMarker \o <<" ">> \o line \o <<" ", " ">>, <<>>)

FileRow(file, nameLength, lineLength) ==
    Row(<<" ", " ", " ", " ", " ", " ">> \o getFileIcon(file.name) \o <<" ">>
            \o getHighlightedFilename(file, nameLength, lineLength), <<>>)

\* The rows the callback of commits.forEach logs for one commit; when the
\* callback throws, the rows logged before the exception.
CommitRows(commit, index, selected, lineLength) ==
    <<SummaryRow(commit, index, selected, lineLength)>> \o
    (IF commit.isExpanded /\ ~FilenameLengthThrows(commit.files)
     THEN LET nameLength == getLongestFilenameLength(commit.files)
          IN [k \in 1..Len(commit.files) |->
                FileRow(commit.files[k], nameLength, lineLength)]
     ELSE <<>>)

CommitRenderThrows(commit) == commit.isExpanded /\ FilenameLengthThrows(commit.files)

RECURSIVE RowsFrom(_, _, _, _)
RowsFrom(cs, i, selected, lineLength) ==
    IF i > Len(cs) THEN <<>>
    ELSE CommitRows(cs[i], i - 1, selected, lineLength) \o
         (IF CommitRenderThrows(cs[i]) THEN <<>>
          ELSE RowsFrom(cs, i + 1, selected, lineLength))

\* The value of accepts when stdout stays open.
Open == -1

RECURSIVE FileCountFrom(_, _)
FileCountFrom(cs, i) ==
    IF i > Len(cs) THEN 0 ELSE Len(cs[i].files) + FileCountFrom(cs, i + 1)

\* The most writes one renderList can make on cs: console.clear, the header,
\* a row for each commit and each file.
MostWrites(cs) == 2 + Len(cs) + FileCountFrom(cs, 1)

\* renderList(commits, selectedIndex): the frame it leaves on the terminal
\* and whether it throws.  prev is the frame on the terminal before the
\* call.  accepts is the number of writes stdout takes before it is closed
\* (Open: it is not closed); console.clear is the first write and each
\* console.log one more, and the first write that is rejected throws.
renderList(cs, selected, prev, accepts) ==
    LET rows      == <<Header>> \o RowsFrom(cs, 1, selected, getLongestLineLength(cs))
        typeError == \E i \in 1..Len(cs) : CommitRenderThrows(cs[i])
        rejected  == accepts # Open /\ accepts < 1 + Len(rows)
    IN [frame |-> IF ~rejected THEN rows
                  ELSE IF accepts = 0 THEN prev
                  ELSE SubSeq(rows, 1, accepts - 1),
        threw |-> rejected \/ typeError,
        error |-> IF rejected THEN "BrokenPipe"
                  ELSE IF typeError THEN "TypeError" ELSE "none"]

\* ------------------------------------------------------------------------
\* Inputs
\* ------------------------------------------------------------------------

\* The bytes the dispatch distinguishes: interrupt, space, ESC, '[', 'A', 'B'.
Bytes == {3, 32, 27, 91, 65, 66}

BufferSize == 8

UpArrow == <<27, 91, 65>>

DownArrow == <<27, 91, 66>>

SeqsUpTo(S, k) == UNION {[1..m -> S] : m \in 0..k}

\* Chunks carrying an arrow key, a fragment of one, or several keys.
KeyChunks ==
    {UpArrow, DownArrow, <<27, 91>>, <<91, 65>>, <<3, 32>>, <<32, 32>>, <<27, 91, 3>>,
     <<3, 27, 91, 65>>, <<32, 27, 91, 66>>, <<27, 91, 66, 27, 91, 66>>}

\* What one Deno.stdin.read may deliver: 0 to 8 bytes.
ByteChunks == SeqsUpTo(Bytes, MaxChunkLen) \cup KeyChunks

\* The reads of the interactive sessions: the keys, an empty read, an
\* unrecognized byte and a fragment of an arrow.
SessionChunks == {<<>>, <<3>>, <<32>>, UpArrow, DownArrow, <<66>>, <<27, 91>>}

Meta1 == <<"h", "1", "|", "a", "l", "|">> \o RawDate1 \o <<"|", "f", "i", "x">>

Meta2 == <<"h", "2", "|", "b", "o", "|">> \o RawDate2 \o <<"|", "a", "d", "d", " ", "a", "|", "b">>

Meta3 == <<"h", "3", "|", "c", "y", "|">> \o RawDate3 \o <<"|">>

\* Malformed: three fields only.
MetaShort == <<"h", "4", "|", "a", "l", "|">> \o RawDate1

\* Malformed: a date new Date cannot read.
MetaBadDate == <<"h", "5", "|", "a", "l", "|", "?", "?", "|", "l", "a", "t", "e">>

FilesAM == <<<<"M", "\t", "a", ".", "t", "s">>, <<"A", "\t", "b", ".", "j", "s">>>>

FilesR == <<<<"R", "1", "0", "0", "\t", "o", ".", "t", "s", "\t", "n", ".", "t", "s">>>>

FilesC == <<<<"C", "7", "5", "\t", "p", ".", "c", "s", "s", "\t", "q", ".", "c", "s", "s">>>>

FilesXD == <<<<"X", "\t", "z">>, <<"D", "\t", "c">>>>

\* A line with no tab: the file has a status and no name.
FilesBare == <<<<"M">>>>

Block(meta, files) == Join(<<meta>> \o files, <<"\n">>)

\* The log texts of the interactive sessions.
SessionLogs ==
    { Join(<<Block(Meta1, FilesAM), Block(Meta2, FilesR), Block(Meta3, <<>>)>>, <<"\n", "\n">>) \o <<"\n">>,
      Join(<<Block(Meta2, FilesXD), Block(Meta1, FilesBare)>>, <<"\n", "\n">>),
      Block(Meta1, FilesC) \o <<"\n">>,
      Block(Meta1, FilesAM) \o <<"\n", "\n">> }

ParserMetas == {Meta1, Meta2, MetaShort, MetaBadDate}

ParserFiles == {<<>>, FilesAM, FilesR, FilesC, FilesXD}

ParserBlocks == {Block(m, f) : m \in ParserMetas, f \in ParserFiles}

\* The log texts of the parser specification: up to MaxBlocks blocks, ended
\* by nothing, by a newline or by a blank line; the empty text; one block
\* after a blank line.
ParserLogs ==
    {Join(bs, <<"\n", "\n">>) \o end :
        bs \in SeqsUpTo(ParserBlocks, MaxBlocks) \ {<<>>}, end \in {<<>>, <<"\n">>, <<"\n", "\n">>}}
    \cup {<<>>}
    \cup {<<"\n", "\n">> \o b \o <<"\n">> : b \in ParserBlocks}

\* ------------------------------------------------------------------------
\* The program
\* ------------------------------------------------------------------------

ZeroBuffer == [i \in 1..BufferSize |-> 0]

\* The record of an iteration: how its read ended and the state it began in.
Iteration(read, cs, selected, fr) ==
    [read |-> read, commits |-> cs, selectedIndex |-> selected, frame |-> fr]

InitWith(text) ==
    /\ logOutput = text
    /\ pc = "main"
    /\ commits = <<>>
    /\ selectedIndex = 0
    /\ raw = FALSE
    /\ setRawCalls = <<>>
    /\ buffer = ZeroBuffer
    /\ bytes = <<>>
    /\ frame = <<>>
    /\ repaints = 0
    /\ farewells = 0
    /\ iter = Iteration("none", <<>>, 0, <<>>)
    /\ error = "none"

Init == \E text \in SessionLogs : InitWith(text)

\* main, lines 225-249: build commitHistory, or die of the first exception.
Main ==
    /\ pc = "main"
    /\ IF ParseThrows(logOutput)
       THEN /\ pc' = "failed"
            /\ error' = "RangeError"
            /\ UNCHANGED commits
       ELSE /\ pc' = "session"
            /\ commits' = ParseLog(logOutput)
            /\ UNCHANGED error
    /\ UNCHANGED <<logOutput, selectedIndex, raw, setRawCalls, buffer, bytes, frame,
                   repaints, farewells, iter>>

\* interactiveList, lines 158-161.
EnterRawMode ==
    /\ pc = "session"
    /\ selectedIndex' = 0
    /\ raw' = TRUE
    /\ setRawCalls' = Append(setRawCalls, TRUE)
    /\ pc' = "render"
    /\ UNCHANGED <<logOutput, commits, buffer, bytes, frame, repaints, farewells, iter,
                   error>>

\* interactiveList, lines 163-165: the first renderList, outside the try.
InitialRender(accepts) ==
    /\ pc = "render"
    /\ LET r == renderList(commits, selectedIndex, frame, accepts)
       IN /\ frame' = r.frame
          /\ IF r.threw
             THEN pc' = "failed" /\ error' = r.error
             ELSE pc' = "loop" /\ UNCHANGED error
    /\ buffer' = ZeroBuffer
    /\ UNCHANGED <<logOutput, commits, selectedIndex, raw, setRawCalls, bytes, repaints,
                   farewells, iter>>

\* The finally block, lines 198-202, and the way interactiveList is left
\* after it.  closed: stdout is closed, so the console.log of line 201 throws
\* after setRaw(false) and its exception replaces the pending completion.
Finally(closed, end, err) ==
    /\ raw' = FALSE
    /\ setRawCalls' = Append(setRawCalls, FALSE)
    /\ IF closed
       THEN /\ farewells' = farewells
            /\ pc' = "failed"
            /\ error' = "BrokenPipe"
       ELSE /\ farewells' = farewells + 1
            /\ pc' = end
            /\ error' = err

\* Deno.stdin.read resolves to null: break, then the finally block.
ReadNull(closed) ==
    /\ pc = "loop"
    /\ iter' = Iteration("null", commits, selectedIndex, frame)
    /\ Finally(closed, "done", error)
    /\ bytes' = <<>>
    /\ repaints' = 0
    /\ UNCHANGED <<logOutput, commits, selectedIndex, buffer, frame>>

\* Deno.stdin.read rejects: the finally block, then the exception goes on.
ReadFails(closed) ==
    /\ pc = "loop"
    /\ iter' = Iteration("error", commits, selectedIndex, frame)
    /\ Finally(closed, "failed", "ReadError")
    /\ bytes' = <<>>
    /\ repaints' = 0
    /\ UNCHANGED <<logOutput, commits, selectedIndex, buffer, frame>>

\* Deno.stdin.read(buffer) delivering chunk: the first n bytes are written.
ReadInto(buf, chunk) == [i \in 1..BufferSize |-> IF i <= Len(chunk) THEN chunk[i] ELSE buf[i]]

\* buffer.subarray(0, n)
Subarray(buf, n) == SubSeq(buf, 1, n)

\* bytes[i] of the subarray (0-based); -1 stands for undefined.
ByteAt(bs, i) == IF i + 1 <= Len(bs) THEN bs[i + 1] ELSE -1

\* IsInterrupt with a slip: the chunk compared as a whole with the byte.
IsInterruptWholeChunk(bs) == bs = <<3>>

\* line 175
IsInterrupt(bs) == ByteAt(bs, 0) = 3

\* line 180
IsSpace(bs) == ByteAt(bs, 0) = 32

\* IsUp with a slip: the escape byte alone is taken for the arrow.
IsUpEscapeOnly(bs) == ByteAt(bs, 0) = 27 /\ ByteAt(bs, 2) # 66

\* line 187
IsUp(bs) == ByteAt(bs, 0) = 27 /\ ByteAt(bs, 1) = 91 /\ ByteAt(bs, 2) = 65

\* line 193
IsDown(bs) == ByteAt(bs, 0) = 27 /\ ByteAt(bs, 1) = 91 /\ ByteAt(bs, 2) = 66

\* The loop's state while one chunk is dispatched.
Local(cs, selected, fr, n, threw, err) ==
    [commits |-> cs, selectedIndex |-> selected, frame |-> fr, repaints |-> n,
     threw |-> threw, error |-> err]

\* renderList(commits, selectedIndex) called from the loop
Rendered(st, cs, selected, accepts) ==
    LET r == renderList(cs, selected, st.frame, accepts)
    IN Local(cs, selected, r.frame, st.repaints + 1, r.threw, r.error)

\* SpaceStep with a slip: the repaint is made before the flag is flipped.
SpaceStepRenderFirst(st, accepts) ==
    LET i == st.selectedIndex + 1
        r == renderList(st.commits, st.selectedIndex, st.frame, accepts)
    IN Local([st.commits EXCEPT ![i].isExpanded = ~st.commits[i].isExpanded],
             st.selectedIndex, r.frame, st.repaints + 1, r.threw, r.error)

\* SpaceStep with a slip: every commit is toggled.
SpaceStepAll(st, accepts) ==
    Rendered(st, [i \in 1..Len(st.commits) |->
                    [st.commits[i] EXCEPT !.isExpanded = ~st.commits[i].isExpanded]],
             st.selectedIndex, accepts)

\* SpaceStep with a slip: the commit is expanded, never collapsed.
SpaceStepExpandOnly(st, accepts) ==
    LET i == st.selectedIndex + 1
    IN Rendered(st, [st.commits EXCEPT ![i].isExpanded = TRUE], st.selectedIndex, accepts)

\* lines 180-183
SpaceStep(st, accepts) ==
    LET i == st.selectedIndex + 1
    IN Rendered(st, [st.commits EXCEPT ![i].isExpanded = ~st.commits[i].isExpanded],
                st.selectedIndex, accepts)

\* UpStep with a slip: the selection wraps from the first row to the last.
UpStepWraps(st, accepts) ==
    Rendered(st, st.commits,
             IF st.selectedIndex = 0 THEN Len(st.commits) - 1 ELSE st.selectedIndex - 1,
             accepts)

\* lines 187-190
UpStep(st, accepts) ==
    Rendered(st, st.commits, Max(0, st.selectedIndex - 1), accepts)

\* DownStep with a slip: the bound is the length, not the last index.
DownStepOffByOne(st, accepts) ==
    Rendered(st, st.commits, Min(Len(st.commits), st.selectedIndex + 1), accepts)

\* lines 193-196
DownStep(st, accepts) ==
    Rendered(st, st.commits, Min(Len(st.commits) - 1, st.selectedIndex + 1), accepts)

AfterSpace(st, bs, accepts) == IF IsSpace(bs) THEN SpaceStep(st, accepts) ELSE st

AfterUp(st, bs, accepts) == IF ~st.threw /\ IsUp(bs) THEN UpStep(st, accepts) ELSE st

\* AfterDown with a slip: a down arrow is looked for after the leading key too.
AfterDownAnywhere(st, bs, accepts) ==
    IF ~st.threw /\ \E k \in 1..Len(bs) : IsDown(SubSeq(bs, k, Len(bs)))
    THEN DownStep(st, accepts) ELSE st

AfterDown(st, bs, accepts) == IF ~st.threw /\ IsDown(bs) THEN DownStep(st, accepts) ELSE st

\* lines 179-196: the three if statements in order; an exception skips the rest.
Dispatch(st, bs, accepts) == AfterDown(AfterUp(AfterSpace(st, bs, accepts), bs, accepts), bs, accepts)

\* The end of an iteration that did not break: loop again, or leave through
\* the finally block with the exception of a renderList.
Continue(st, closed) ==
    /\ commits' = st.commits
    /\ selectedIndex' = st.selectedIndex
    /\ frame' = st.frame
    /\ repaints' = st.repaints
    /\ IF st.threw
       THEN Finally(closed, "failed", st.error)
       ELSE pc' = "loop" /\ UNCHANGED <<raw, setRawCalls, farewells, error>>

\* The iteration on chunk calls renderList.
Repaints(chunk) == IsSpace(chunk) \/ IsUp(chunk) \/ IsDown(chunk)

\* A closed stdout shows only in an iteration that writes: a repaint, or the
\* farewell line after an interrupt.
Writes(chunk) == Repaints(chunk) \/ IsInterrupt(chunk)

\* ReadChunk with a slip: the keys are looked for in the whole buffer, not in
\* the bytes the read delivered.
ReadChunkWholeBuffer(chunk, accepts) ==
    /\ pc = "loop"
    /\ accepts # Open => (Writes(chunk) /\ (IsInterrupt(chunk) => accepts = 0))
    /\ iter' = Iteration("chunk", commits, selectedIndex, frame)
    /\ buffer' = ReadInto(buffer, chunk)
    /\ bytes' = Subarray(ReadInto(buffer, chunk), Len(chunk))
    /\ IF IsInterrupt(ReadInto(buffer, chunk))
       THEN /\ Finally(accepts # Open, "done", error)
            /\ repaints' = 0
            /\ UNCHANGED <<commits, selectedIndex, frame>>
       ELSE Continue(Dispatch(Local(commits, selectedIndex, frame, 0, FALSE, "none"),
                              ReadInto(buffer, chunk), accepts),
                     accepts # Open)
    /\ UNCHANGED logOutput

\* One iteration of the while loop on a read of Len(chunk) bytes.
ReadChunk(chunk, accepts) ==
    /\ pc = "loop"
    /\ accepts # Open => (Writes(chunk) /\ (IsInterrupt(chunk) => accepts = 0))
    /\ iter' = Iteration("chunk", commits, selectedIndex, frame)
    /\ buffer' = ReadInto(buffer, chunk)
    /\ bytes' = Subarray(ReadInto(buffer, chunk), Len(chunk))
    /\ IF IsInterrupt(Subarray(ReadInto(buffer, chunk), Len(chunk)))
       THEN /\ Finally(accepts # Open, "done", error)
            /\ repaints' = 0
            /\ UNCHANGED <<commits, selectedIndex, frame>>
       ELSE Continue(Dispatch(Local(commits, selectedIndex, frame, 0, FALSE, "none"),
                              Subarray(ReadInto(buffer, chunk), Len(chunk)), accepts),
                     accepts # Open)
    /\ UNCHANGED logOutput

Session(chunks) ==
    \/ Main
    \/ EnterRawMode
    \/ InitialRender(Open)
    \/ \E accepts \in 0..MostWrites(commits) : InitialRender(accepts)
    \/ \E closed \in BOOLEAN : ReadNull(closed)
    \/ \E closed \in BOOLEAN : ReadFails(closed)
    \/ \E chunk \in chunks : ReadChunk(chunk, Open)
    \/ \E chunk \in chunks, accepts \in 0..MostWrites(commits) : ReadChunk(chunk, accepts)

Next == Session(SessionChunks)

\* Sessions on every log of SessionLogs, reading the chunks of SessionChunks.
Spec == Init /\ [][Next]_vars

ByteInit == InitWith(Join(<<Block(Meta1, <<>>), Block(Meta2, FilesR)>>, <<"\n", "\n">>) \o <<"\n">>)

ByteNext == Session(ByteChunks)

\* Sessions on one log of two commits, reading every chunk of ByteChunks.
ByteSpec == ByteInit /\ [][ByteNext]_vars

ParserInit == \E text \in ParserLogs : InitWith(text)

ParserNext == Main

\* The parser alone, on every log of ParserLogs.
ParserSpec == ParserInit /\ [][ParserNext]_vars

\* ------------------------------------------------------------------------
\* Properties
\* ------------------------------------------------------------------------

\* bs begins with the bytes of prefix.
HasPrefix(bs, prefix) == Len(bs) >= Len(prefix) /\ SubSeq(bs, 1, Len(prefix)) = prefix

\* The most recent iteration read a chunk of bytes beginning with prefix.
LastChunkBegins(prefix) == iter.read = "chunk" /\ HasPrefix(bytes, prefix)

\* interactiveList has been entered and selectedIndex declared.
InSession == pc \in {"render", "loop"} \/ (pc \in {"done", "failed"} /\ setRawCalls # <<>>)

\* Everything of a commit but its expanded flag.
Content(commit) == [commit EXCEPT !.isExpanded = FALSE]

\* C1: in a session started with at least one commit, whatever chunks are
\* read, 0 <= selectedIndex <= commits.length - 1 in every state of the loop.
C1_SelectionInBounds ==
    (InSession /\ Len(commits) >= 1) =>
        (0 <= selectedIndex /\ selectedIndex <= Len(commits) - 1)

\* A down arrow read with the last of three commits selected.
C1_Witness ==
    /\ pc = "loop"
    /\ Len(commits) = 3
    /\ LastChunkBegins(DownArrow)
    /\ iter.selectedIndex = 2
    /\ selectedIndex = 2

\* C2: whenever the session has ended after setRaw(true) was called, by an
\* interrupt, the end of input, a failing read or a failing renderList (the
\* first one included), setRaw(false) has been called and raw mode is off.
C2_RawModeReleased ==
    (pc \in {"done", "failed"} /\ setRawCalls # <<>>) =>
        (raw = FALSE /\ setRawCalls[Len(setRawCalls)] = FALSE)

\* C3: a chunk whose first byte is 3 ends the loop before anything else is
\* done with it: no flag is toggled, selectedIndex keeps its value and
\* nothing is repainted, whatever bytes follow.
C3_InterruptFirst ==
    LastChunkBegins(<<3>>) =>
        /\ pc \in {"done", "failed"}
        /\ commits = iter.commits
        /\ selectedIndex = iter.selectedIndex
        /\ repaints = 0
        /\ frame = iter.frame

\* An interrupt followed by an up arrow, read with the second commit selected.
C3_Witness ==
    /\ pc = "done"
    /\ iter.read = "chunk"
    /\ bytes = <<3, 27, 91, 65>>
    /\ selectedIndex = 1

\* C4: a down-arrow chunk moves the selection one row down unless the last
\* row is selected, an up-arrow chunk one row up unless the first is.
C4_ArrowMoves ==
    /\ LastChunkBegins(DownArrow) =>
           selectedIndex = (IF iter.selectedIndex + 1 > Len(iter.commits) - 1
                            THEN Len(iter.commits) - 1 ELSE iter.selectedIndex + 1)
    /\ LastChunkBegins(UpArrow) =>
           selectedIndex = (IF iter.selectedIndex - 1 < 0 THEN 0 ELSE iter.selectedIndex - 1)

\* An up arrow read with the first of three commits selected.
C4_Witness ==
    /\ pc = "loop"
    /\ Len(commits) = 3
    /\ LastChunkBegins(UpArrow)
    /\ iter.selectedIndex = 0
    /\ selectedIndex = 0

\* C5: a space chunk flips the expanded flag of the selected commit and
\* nothing else; an arrow chunk leaves every flag as it was; no chunk adds,
\* removes, reorders or rewrites a commit or a file.
C5_SpaceTogglesOnly ==
    iter.read = "chunk" =>
        /\ Len(commits) = Len(iter.commits)
        /\ \A i \in 1..Len(commits) : Content(commits[i]) = Content(iter.commits[i])
        /\ LastChunkBegins(<<32>>) =>
               /\ selectedIndex = iter.selectedIndex
               /\ \A i \in 1..Len(commits) :
                      commits[i].isExpanded =
                          (IF i = iter.selectedIndex + 1
                           THEN ~iter.commits[i].isExpanded
                           ELSE iter.commits[i].isExpanded)
        /\ (LastChunkBegins(UpArrow) \/ LastChunkBegins(DownArrow)) =>
               \A i \in 1..Len(commits) : commits[i].isExpanded = iter.commits[i].isExpanded

\* A space read with the second of three commits selected and the first expanded.
C5_Witness ==
    /\ pc = "loop"
    /\ Len(commits) = 3
    /\ LastChunkBegins(<<32>>)
    /\ iter.selectedIndex = 1
    /\ iter.commits[1].isExpanded
    /\ ~iter.commits[2].isExpanded
    /\ commits[2].isExpanded

\* The chunk is one of the four the loop acts on.
Recognized(bs) ==
    \/ HasPrefix(bs, <<3>>)
    \/ HasPrefix(bs, <<32>>)
    \/ HasPrefix(bs, UpArrow)
    \/ HasPrefix(bs, DownArrow)

\* C6: a chunk that is none of the four recognized ones, a fragment of an
\* arrow sequence included, changes neither selectedIndex nor any flag and
\* repaints nothing.
C6_OtherChunksInert ==
    (iter.read = "chunk" /\ ~Recognized(bytes)) =>
        /\ pc = "loop"
        /\ commits = iter.commits
        /\ selectedIndex = iter.selectedIndex
        /\ repaints = 0
        /\ frame = iter.frame

\* The tail [91, 65] of an up arrow read on its own with the second commit
\* selected and expanded.
C6_Witness ==
    /\ pc = "loop"
    /\ iter.read = "chunk"
    /\ bytes = <<91, 65>>
    /\ selectedIndex = 1
    /\ commits[2].isExpanded

\* C7: two space chunks in a row bring the session back to the state before
\* the first, and the frame after the second is the frame of that state.
C7_ToggleTwice ==
    [][(/\ pc = "loop"
        /\ LastChunkBegins(<<32>>)
        /\ pc' = "loop"
        /\ iter'.read = "chunk"
        /\ HasPrefix(bytes', <<32>>))
       => (/\ commits' = iter.commits
           /\ selectedIndex' = iter.selectedIndex
           /\ frame' = iter.frame
           /\ frame' = renderList(iter.commits, iter.selectedIndex, iter.frame, Open).frame)]_vars

\* A space that collapsed the second commit, which has a file to show.
C7_Witness ==
    /\ pc = "loop"
    /\ LastChunkBegins(<<32>>)
    /\ Len(commits) = 3
    /\ iter.selectedIndex = 1
    /\ iter.commits[2].isExpanded
    /\ ~commits[2].isExpanded
    /\ Len(commits[2].files) = 1

\* The length of "{date} {time} | {author} | {summary}" of a commit.
LineWidth(commit) ==
    Len(Str(commit.date)) + 1 + Len(Str(commit.time)) + 3 + Len(Str(commit.username))
        + 3 + Len(Str(commit.message))

\* The summary column width of the commits as loaded from the log.
LoadedWidth ==
    LET loaded == ParseLog(logOutput)
        widths == {LineWidth(loaded[i]) : i \in 1..Len(loaded)}
    IN CHOOSE w \in widths : \A v \in widths : v <= w

\* C8: the summary column width a repaint uses is the one of the commits as
\* loaded, whatever is expanded and whatever is selected; every summary row
\* on the terminal is padded to it.
C8_ColumnStable ==
    (InSession /\ pc # "render") =>
        /\ getLongestLineLength(commits) = LoadedWidth
        /\ \A r \in 2..Len(frame) :
               SubSeq(frame[r].text, 1, 3) = <<" ", " ", "[">> =>
                   Len(frame[r].text) = LoadedWidth + 8

\* A repaint with the longest commit expanded and the last one selected.
C8_Witness ==
    /\ pc = "loop"
    /\ repaints = 1
    /\ Len(commits) = 3
    /\ commits[2].isExpanded
    /\ selectedIndex = 2
    /\ LineWidth(commits[2]) = LoadedWidth
    /\ LineWidth(commits[1]) < LoadedWidth
    /\ Len(frame) = 5

\* The lines of block i of the log, and the fields of its file line k.
FileFields(i, k) == Split(BlockLines(LogBlocks(logOutput)[i])[k + 1], <<"\t">>)

\* C9: a file line statusCode TAB oldPath TAB newPath whose status code
\* begins with R gives a file of status R whose name is newPath, the third
\* field, and whose oldName is oldPath, the second.
C9_RenameFields ==
    pc = "session" =>
        \A i \in 1..Len(commits) : \A k \in 1..Len(commits[i].files) :
            (Len(FileFields(i, k)) = 3 /\ HasPrefix(FileFields(i, k)[1], <<"R">>)) =>
                /\ commits[i].files[k].status = <<"R">>
                /\ commits[i].files[k].name = FileFields(i, k)[3]
                /\ commits[i].files[k].oldName = FileFields(i, k)[2]

\* A block is malformed: fewer than 4 fields on its first line, or a date
\* that is no date.
Malformed(block) ==
    \/ Len(BlockMeta(block)) < 4
    \/ ~NewDate(BlockMeta(block)[3]).valid

\* The well-formed blocks of the log, in order.
WellFormedBlocks == SelectSeq(LogBlocks(logOutput), LAMBDA b : ~Malformed(b))

\* C10: when a block of the log is malformed, that commit alone is rejected:
\* the session is not aborted and the commits handed to the input loop are
\* the well-formed commits of the log, in order.
C10_MalformedSkipped ==
    (pc # "main" /\ \E i \in 1..Len(LogBlocks(logOutput)) : Malformed(LogBlocks(logOutput)[i])) =>
        /\ pc = "session"
        /\ Len(commits) = Len(WellFormedBlocks)
        /\ \A i \in 1..Len(commits) : commits[i] = ParseCommit(WellFormedBlocks[i])

\* The first line of block i of the log, split at its pipes.
MetaFields(i) == Split(BlockLines(LogBlocks(logOutput)[i])[1], <<"|">>)

\* C11: when the first line of a block has more than three pipes, the first
\* three give hash, author and date, and all the text after the third, its
\* pipes included, is the summary.
C11_SummaryKeepsPipes ==
    pc = "session" =>
        \A i \in 1..Len(commits) :
            Len(MetaFields(i)) > 4 =>
                commits[i].message = Join(SubSeq(MetaFields(i), 4, Len(MetaFields(i))), <<"|">>)

\* The text without the newlines that end it.
Body(text) == TrimEnd(text)

\* The blocks of the text as written: the pieces between blank lines.
WrittenBlocks(text) == Split(Body(text), <<"\n", "\n">>)

RecognizedCodes == {<<"A">>, <<"M">>, <<"D">>, <<"C">>}

\* The status code is A, M, D or C, or begins with R.
RecognizedCode(code) == code \in RecognizedCodes \/ HasPrefix(code, <<"R">>)

\* A file line of two or three fields with a status code git emits.
WellFormedFileLine(line) ==
    /\ Len(Split(line, <<"\t">>)) \in {2, 3}
    /\ \/ RecognizedCode(Split(line, <<"\t">>)[1])
       \/ HasPrefix(Split(line, <<"\t">>)[1], <<"C">>)

\* A block with a full first line and well-formed file lines.
WellFormedBlock(block) ==
    LET lines == Split(block, <<"\n">>)
    IN /\ block # <<>>
       /\ ~Malformed(block)
       /\ \A k \in 2..Len(lines) : WellFormedFileLine(lines[k])

\* Blocks separated by one blank line, ended by nothing, a newline or a
\* blank line.
WellFormedLog(text) ==
    /\ text # <<>>
    /\ Len(text) - Len(Body(text)) <= 2
    /\ \A i \in 1..Len(WrittenBlocks(text)) : WellFormedBlock(WrittenBlocks(text)[i])

\* C12: a well-formed log text parses to as many commits as it has blocks,
\* in their order, each with as many files as its block has file lines, in
\* their order.
C12_RoundTrip ==
    (pc # "main" /\ WellFormedLog(logOutput)) =>
        /\ pc = "session"
        /\ Len(commits) = Len(WrittenBlocks(logOutput))
        /\ \A i \in 1..Len(commits) :
               LET lines == Split(WrittenBlocks(logOutput)[i], <<"\n">>)
               IN /\ commits[i].hash = Split(lines[1], <<"|">>)[1]
                  /\ Len(commits[i].files) = Len(lines) - 1
                  /\ \A k \in 1..Len(commits[i].files) :
                         Split(lines[k + 1], <<"\t">>)[1][1] = commits[i].files[k].status[1]

\* The blocks of the log that are not empty, in order.
NonEmptyBlocks == SelectSeq(LogBlocks(logOutput), LAMBDA b : TrimEnd(b) # <<>>)

\* The log begins or ends with an empty block, and no other block is malformed.
OnlyEmptyEdgeBlocks ==
    LET blocks == LogBlocks(logOutput)
    IN /\ TrimEnd(blocks[1]) = <<>> \/ TrimEnd(blocks[Len(blocks)]) = <<>>
       /\ \A i \in 1..Len(blocks) :
              TrimEnd(blocks[i]) = <<>> => i \in {1, Len(blocks)}
       /\ \A i \in 1..Len(NonEmptyBlocks) : ~Malformed(NonEmptyBlocks[i])

\* C13: an empty block at the beginning or the end of the log, the one of an
\* empty log included, is discarded: it gives no commit and is no error.
C13_EmptyBlockDiscarded ==
    (pc # "main" /\ OnlyEmptyEdgeBlocks) =>
        /\ pc = "session"
        /\ Len(commits) = Len(NonEmptyBlocks)
        /\ \A i \in 1..Len(commits) : commits[i] = ParseCommit(NonEmptyBlocks[i])

\* The file lines of block i whose status code is recognized, in order.
RecognizedLines(i) ==
    SelectSeq(Tail(BlockLines(LogBlocks(logOutput)[i])),
              LAMBDA line : RecognizedCode(Split(line, <<"\t">>)[1]))

\* C14: a file line with an unrecognized status code is dropped: its commit
\* is kept with its other files in order, and no file of a status outside
\* A, M, D, R, C is in the commit sequence.
C14_UnknownStatusDropped ==
    pc = "session" =>
        /\ Len(commits) = Len(LogBlocks(logOutput))
        /\ \A i \in 1..Len(commits) :
               /\ Len(commits[i].files) = Len(RecognizedLines(i))
               /\ \A k \in 1..Len(commits[i].files) :
                      /\ commits[i].files[k].status \in RecognizedCodes \cup {<<"R">>}
                      /\ commits[i].files[k] = ParseFile(RecognizedLines(i)[k])

\* C15: oldName is set exactly when the status is R: a copied entry and
\* every other line have none, and a renamed entry has one that is not empty.
C15_OldNameIffRenamed ==
    pc = "session" =>
        \A i \in 1..Len(commits) : \A k \in 1..Len(commits[i].files) :
            /\ (commits[i].files[k].oldName # Undefined) <=> (commits[i].files[k].status = <<"R">>)
            /\ commits[i].files[k].status = <<"R">> => commits[i].files[k].oldName # <<>>

\* The rows of commit i on a terminal: its summary row and, when it is
\* expanded, one row for each of its files.
ShownRows(i) == 1 + (IF commits[i].isExpanded THEN Len(commits[i].files) ELSE 0)

RECURSIVE RowOf(_)
\* The place in the frame of the summary row of commit i.
RowOf(i) == IF i = 1 THEN 2 ELSE RowOf(i - 1) + ShownRows(i - 1)

\* C16: every frame (one that stdout took whole) is the header and then, for
\* each commit in order, one summary row ([-] when expanded, [+] when not,
\* highlighted exactly when the commit is the selected one) followed by one
\* row for each file of the commit, in order, exactly when the commit is
\* expanded.
C16_FrameStructure ==
    (InSession /\ frame # <<>> /\ error # "BrokenPipe") =>
        /\ frame[1] = Header
        /\ Len(frame) = RowOf(Len(commits)) + ShownRows(Len(commits)) - 1
        /\ Cardinality({r \in 1..Len(frame) : frame[r].css # <<>>}) = 1
        /\ \A i \in 1..Len(commits) :
               /\ HasPrefix(frame[RowOf(i)].text,
                            IF commits[i].isExpanded THEN <<" ", " ", "[", "-", "]", " ">> ELSE <<" ", " ", "[", "+", "]", " ">>)
               /\ (frame[RowOf(i)].css # <<>>) <=> (i - 1 = selectedIndex)
               /\ \A k \in 1..(ShownRows(i) - 1) :
                      /\ HasPrefix(frame[RowOf(i) + k].text, <<" ", " ", " ", " ", " ", " ">>)
                      /\ frame[RowOf(i) + k].css = <<>>
                      /\ Occurrences(frame[RowOf(i) + k].text,
                                     commits[i].files[k].name) # {}

\* The summary rows of a frame, top to bottom.
SummaryRows(fr) == SelectSeq(fr, LAMBDA r : HasPrefix(r.text, <<" ", " ", "[">>))

\* C17: a space, up-arrow or down-arrow chunk is followed by exactly one
\* repaint, made after the transition is applied and before the next read:
\* the selection and the expanded flags on the terminal are those of the
\* session after the most recent chunk (stdout being open to show them).
C17_RepaintShowsState ==
    /\ (LastChunkBegins(<<32>>) \/ LastChunkBegins(UpArrow) \/ LastChunkBegins(DownArrow))
           => repaints = 1
    /\ (InSession /\ frame # <<>> /\ error # "BrokenPipe") =>
           /\ Len(SummaryRows(frame)) = Len(commits)
           /\ \A i \in 1..Len(commits) :
                  /\ (SummaryRows(frame)[i].text[4] = "-") <=> commits[i].isExpanded
                  /\ (SummaryRows(frame)[i].css # <<>>) <=> (i - 1 = selectedIndex)

\* A space read with the second of three commits selected: the repaint shows
\* the second commit expanded and selected.
C17_Witness ==
    /\ pc = "loop"
    /\ Len(commits) = 3
    /\ LastChunkBegins(<<32>>)
    /\ repaints = 1
    /\ iter.selectedIndex = 1
    /\ ~iter.commits[2].isExpanded
    /\ SummaryRows(frame)[2].text[4] = "-"
    /\ SummaryRows(frame)[2].css # <<>>

\* C18: an iteration applies at most one transition and makes at most one
\* repaint, chosen by the leading bytes of the chunk: no chunk meets two of
\* the four conditions, and a chunk of several keys has the effect of its
\* first key only.
C18_OneTransition ==
    /\ \A c \in ByteChunks :
           /\ ~(IsInterrupt(c) /\ (IsSpace(c) \/ IsUp(c) \/ IsDown(c)))
           /\ ~(IsSpace(c) /\ (IsUp(c) \/ IsDown(c)))
           /\ ~(IsUp(c) /\ IsDown(c))
    /\ iter.read = "chunk" =>
           /\ repaints <= 1
           /\ ~(commits # iter.commits /\ selectedIndex # iter.selectedIndex)
           /\ LastChunkBegins(<<3>>) =>
                  repaints = 0 /\ commits = iter.commits /\ selectedIndex = iter.selectedIndex
           /\ LastChunkBegins(<<32>>) =>
                  /\ selectedIndex = iter.selectedIndex
                  /\ commits[selectedIndex + 1].isExpanded
                         = ~iter.commits[selectedIndex + 1].isExpanded
           /\ LastChunkBegins(UpArrow) =>
                  commits = iter.commits /\ selectedIndex >= iter.selectedIndex - 1
           /\ LastChunkBegins(DownArrow) =>
                  commits = iter.commits /\ selectedIndex <= iter.selectedIndex + 1

\* A chunk of a space and a down arrow read with the first commit selected:
\* the commit is toggled, the selection stays, one repaint is made.
C18_Witness ==
    /\ pc = "loop"
    /\ iter.read = "chunk"
    /\ bytes = <<32, 27, 91, 66>>
    /\ repaints = 1
    /\ iter.selectedIndex = 0
    /\ selectedIndex = 0
    /\ ~iter.commits[1].isExpanded
    /\ commits[1].isExpanded

\* C19: a read that yields no bytes, null or a count of 0, ends the loop
\* with no transition and no repaint, raw mode restored and the farewell
\* line printed once (stdout being open to print it).
C19_NoBytesTerminates ==
    (iter.read = "null" \/ (iter.read = "chunk" /\ bytes = <<>>)) =>
        /\ pc \in {"done", "failed"}
        /\ ~raw
        /\ farewells = (IF error = "BrokenPipe" THEN 0 ELSE 1)
        /\ repaints = 0
        /\ commits = iter.commits
        /\ selectedIndex = iter.selectedIndex
        /\ frame = iter.frame

\* The key at the head of the delivered bytes.
KeyOf(bs) ==
    CASE HasPrefix(bs, <<3>>)     -> "interrupt"
      [] HasPrefix(bs, <<32>>)    -> "space"
      [] HasPrefix(bs, UpArrow)   -> "up"
      [] HasPrefix(bs, DownArrow) -> "down"
      [] OTHER                    -> "none"

\* C20: the outcome of an iteration is decided by the state it began in and
\* the bytes its read delivered, whatever earlier reads left in the buffer:
\* whether the loop ends, whether a repaint is made, the selection and the
\* flags are those of the key at the head of the delivered bytes (a repaint
\* that throws ends the loop as well).
C20_StaleBytesIgnored ==
    iter.read = "chunk" =>
        /\ KeyOf(bytes) = "interrupt" => pc \in {"done", "failed"}
        /\ (KeyOf(bytes) # "interrupt" /\ error = "none") => pc = "loop"
        /\ pc = "done" => KeyOf(bytes) = "interrupt"
        /\ repaints = (IF KeyOf(bytes) \in {"space", "up", "down"} THEN 1 ELSE 0)
        /\ selectedIndex =
               (CASE KeyOf(bytes) = "up"   -> Max(0, iter.selectedIndex - 1)
                  [] KeyOf(bytes) = "down" -> Min(Len(iter.commits) - 1, iter.selectedIndex + 1)
                  [] OTHER                 -> iter.selectedIndex)
        /\ Len(commits) = Len(iter.commits)
        /\ \A i \in 1..Len(commits) :
               commits[i].isExpanded =
                   (IF KeyOf(bytes) = "space" /\ i = iter.selectedIndex + 1
                    THEN ~iter.commits[i].isExpanded
                    ELSE iter.commits[i].isExpanded)

\* The first two bytes of an arrow read while the buffer still holds the
\* last byte of an earlier up arrow: no repaint, the loop goes on.
C20_Witness ==
    /\ pc = "loop"
    /\ iter.read = "chunk"
    /\ bytes = <<27, 91>>
    /\ buffer[3] = 65
    /\ repaints = 0
    /\ selectedIndex = iter.selectedIndex

====
